---- MODULE Spec2Model ----
(***************************************************************************)
(* whoami: the cross-platform dispatch and normalization layer (lib.rs).   *)
(*                                                                         *)
(* Text (String) is modelled as its UTF-8 bytes, a sequence of 0..255.     *)
(* The raw form (OsString) is a record wrapping its bytes, which need not  *)
(* be valid UTF-8.  The host's identity facts are the state the native     *)
(* resolver reads; every query is a thread's call made of the steps of its *)
(* body in lib.rs.                                                         *)
(***************************************************************************)
EXTENDS Integers, Sequences, FiniteSets

VARIABLES
    host,       \* the identity facts of the host, as the native resolver sees them
    retained,   \* what the layer keeps between calls (process-wide state)
    pc,         \* pc[t]: where thread t is in its current call
    call,       \* call[t]: the query thread t is in (or has last finished)
    local,      \* local[t]: the value held in the call's frame
    ret,        \* ret[t]: the value returned to the caller
    seen        \* seen[t]: the host as it was at each resolver read of this call

vars == <<host, retained, pc, call, local, ret, seen>>

(***************************************************************************)
(* Bounds of the model.                                                    *)
(***************************************************************************)
MaxHostLen == 2     \* characters in a hostname
MaxRawLen == 2      \* bytes in a raw device name
MaxTextLen == 2     \* characters in an Unknown(text) description
MaxLangs == 2       \* language tags the resolver lists

Threads == {"t1", "t2"}
Main == "t1"

(***************************************************************************)
(* Strings.                                                                *)
(***************************************************************************)
RECURSIVE StringsUpTo(_, _)
\* Every concatenation of at most n of the given characters (byte sequences).
StringsUpTo(chars, n) ==
    IF n = 0 THEN {<< >>}
    ELSE LET shorter == StringsUpTo(chars, n - 1)
         IN  shorter \cup {s \o c : s \in shorter, c \in chars}

StartsWith(s, p) ==
    /\ Len(p) <= Len(s)
    /\ SubSeq(s, 1, Len(p)) = p

RECURSIVE Reverse(_)
Reverse(s) == IF s = << >> THEN << >> ELSE Reverse(Tail(s)) \o <<Head(s)>>

\* String -> OsString (`.into()`): the same bytes, wrapped.
OsStringFrom(s) == [inner |-> s]

\* Option<T>
None == [some |-> FALSE, val |-> << >>]
Some(v) == [some |-> TRUE, val |-> v]

(***************************************************************************)
(* UTF-8 (the text decoding of a raw form).                                *)
(***************************************************************************)
Cont(b) == b \in 128..191

\* The range the second byte of a sequence led by b must lie in.
SecondRange(b) ==
    IF b = 224 THEN 160..191
    ELSE IF b = 237 THEN 128..159
    ELSE IF b = 240 THEN 144..191
    ELSE IF b = 244 THEN 128..143
    ELSE 128..191

\* Bytes the lead byte b announces (0: b cannot lead a character).
Width(b) ==
    IF b < 128 THEN 1
    ELSE IF b \in 194..223 THEN 2
    ELSE IF b \in 224..239 THEN 3
    ELSE IF b \in 240..244 THEN 4
    ELSE 0

\* How many bytes from position i on form the start of a well-formed character.
ValidPrefix(s, i) ==
    LET w == Width(s[i])
        n == Len(s)
    IN  IF w = 0 THEN 0
        ELSE IF w = 1 THEN 1
        ELSE IF ~(i + 1 <= n /\ s[i + 1] \in SecondRange(s[i])) THEN 1
        ELSE IF w = 2 THEN 2
        ELSE IF ~(i + 2 <= n /\ Cont(s[i + 2])) THEN 2
        ELSE IF w = 3 THEN 3
        ELSE IF ~(i + 3 <= n /\ Cont(s[i + 3])) THEN 3
        ELSE 4

\* The length of the character at i, 0 when the bytes there are not one.
CharLenAt(s, i) ==
    IF Width(s[i]) # 0 /\ ValidPrefix(s, i) = Width(s[i]) THEN Width(s[i]) ELSE 0

RECURSIVE IsUtf8From(_, _)
IsUtf8From(s, i) ==
    IF i > Len(s) THEN TRUE
    ELSE /\ CharLenAt(s, i) # 0
         /\ IsUtf8From(s, i + CharLenAt(s, i))

IsUtf8(s) == IsUtf8From(s, 1)

\* OsString::into_string: the text, when the raw form is representable as text.
into_string(os) == IF IsUtf8(os.inner) THEN Some(os.inner) ELSE None

\* U+FFFD REPLACEMENT CHARACTER
Replacement == <<239, 191, 189>>

RECURSIVE LossyFrom(_, _)
\* to_string_lossy: each ill-formed stretch becomes one replacement character.
LossyFrom(s, i) ==
    IF i > Len(s) THEN << >>
    ELSE IF CharLenAt(s, i) # 0
         THEN SubSeq(s, i, i + CharLenAt(s, i) - 1) \o LossyFrom(s, i + CharLenAt(s, i))
         ELSE Replacement
              \o LossyFrom(s, i + (IF ValidPrefix(s, i) = 0 THEN 1 ELSE ValidPrefix(s, i)))

\* The resolver's text form of a raw value.
string_from_os(os) ==
    IF into_string(os).some THEN into_string(os).val ELSE LossyFrom(os.inner, 1)

(***************************************************************************)
(* Taxonomy: Platform and DesktopEnv, and their display text.              *)
(***************************************************************************)
PlatformNames ==
    {"Linux", "Bsd", "Windows", "MacOS", "Ios", "Android", "Nintendo", "Xbox",
     "PlayStation", "Fuchsia", "Redox"}

DesktopEnvNames ==
    {"Gnome", "Windows", "Lxde", "Openbox", "Mate", "Xfce", "Kde", "Cinnamon",
     "I3", "Aqua", "Ios", "Android", "WebBrowser", "Console", "Ubuntu", "Ermine",
     "Orbital"}

\* A variant without payload, and the escape variant Unknown(a).
Variant(name) == [tag |-> name, a |-> << >>]
Unknown(text) == [tag |-> "Unknown", a |-> text]

\* "Unknown: "
UnknownPrefix == <<85, 110, 107, 110, 111, 119, 110, 58, 32>>

\* The duplicate-label slip: Ubuntu rendered as the GNOME it brands.
DesktopEnv_label_dup(self) ==
    CASE self.tag = "Gnome" -> <<71, 110, 111, 109, 101>>
      [] self.tag = "Windows" -> <<87, 105, 110, 100, 111, 119, 115>>
      [] self.tag = "Lxde" -> <<76, 88, 68, 69>>
      [] self.tag = "Openbox" -> <<79, 112, 101, 110, 98, 111, 120>>
      [] self.tag = "Mate" -> <<77, 97, 116, 101>>
      [] self.tag = "Xfce" -> <<88, 70, 67, 69>>
      [] self.tag = "Kde" -> <<75, 68, 69>>
      [] self.tag = "Cinnamon" -> <<67, 105, 110, 110, 97, 109, 111, 110>>
      [] self.tag = "I3" -> <<73, 51>>
      [] self.tag = "Aqua" -> <<65, 113, 117, 97>>
      [] self.tag = "Ios" -> <<73, 79, 83>>
      [] self.tag = "Android" -> <<65, 110, 100, 114, 111, 105, 100>>
      [] self.tag = "WebBrowser" -> <<87, 101, 98, 32, 66, 114, 111, 119, 115, 101, 114>>
      [] self.tag = "Console" -> <<67, 111, 110, 115, 111, 108, 101>>
      [] self.tag = "Ubuntu" -> <<71, 110, 111, 109, 101>>
      [] self.tag = "Ermine" -> <<69, 114, 109, 105, 110, 101>>
      [] self.tag = "Orbital" -> <<79, 114, 98, 105, 116, 97, 108>>
      [] self.tag = "Unknown" -> self.a

\* The match of DesktopEnv::fmt: the text written for each variant.
DesktopEnv_label(self) ==
    CASE self.tag = "Gnome" -> <<71, 110, 111, 109, 101>>                    \* "Gnome"
      [] self.tag = "Windows" -> <<87, 105, 110, 100, 111, 119, 115>>        \* "Windows"
      [] self.tag = "Lxde" -> <<76, 88, 68, 69>>                             \* "LXDE"
      [] self.tag = "Openbox" -> <<79, 112, 101, 110, 98, 111, 120>>         \* "Openbox"
      [] self.tag = "Mate" -> <<77, 97, 116, 101>>                           \* "Mate"
      [] self.tag = "Xfce" -> <<88, 70, 67, 69>>                             \* "XFCE"
      [] self.tag = "Kde" -> <<75, 68, 69>>                                  \* "KDE"
      [] self.tag = "Cinnamon" -> <<67, 105, 110, 110, 97, 109, 111, 110>>   \* "Cinnamon"
      [] self.tag = "I3" -> <<73, 51>>                                       \* "I3"
      [] self.tag = "Aqua" -> <<65, 113, 117, 97>>                           \* "Aqua"
      [] self.tag = "Ios" -> <<73, 79, 83>>                                  \* "IOS"
      [] self.tag = "Android" -> <<65, 110, 100, 114, 111, 105, 100>>        \* "Android"
      [] self.tag = "WebBrowser" -> <<87, 101, 98, 32, 66, 114, 111, 119, 115, 101, 114>>  \* "Web Browser"
      [] self.tag = "Console" -> <<67, 111, 110, 115, 111, 108, 101>>        \* "Console"
      [] self.tag = "Ubuntu" -> <<85, 98, 117, 110, 116, 117>>               \* "Ubuntu"
      [] self.tag = "Ermine" -> <<69, 114, 109, 105, 110, 101>>              \* "Ermine"
      [] self.tag = "Orbital" -> <<79, 114, 98, 105, 116, 97, 108>>          \* "Orbital"
      [] self.tag = "Unknown" -> self.a

\* impl Display for DesktopEnv: what fmt appends to the formatter's buffer f.
DesktopEnv_fmt(self, f) ==
    LET f1 == IF self.tag = "Unknown" THEN f \o UnknownPrefix ELSE f
    IN  f1 \o DesktopEnv_label(self)

\* The match of Platform::fmt: the text written for each variant.
Platform_label(self) ==
    CASE self.tag = "Linux" -> <<76, 105, 110, 117, 120>>                    \* "Linux"
      [] self.tag = "Bsd" -> <<66, 83, 68>>                                  \* "BSD"
      [] self.tag = "Windows" -> <<87, 105, 110, 100, 111, 119, 115>>        \* "Windows"
      [] self.tag = "MacOS" -> <<77, 97, 99, 32, 79, 83>>                    \* "Mac OS"
      [] self.tag = "Ios" -> <<105, 79, 83>>                                 \* "iOS"
      [] self.tag = "Android" -> <<65, 110, 100, 114, 111, 105, 100>>        \* "Android"
      [] self.tag = "Nintendo" -> <<78, 105, 110, 116, 101, 110, 100, 111>>  \* "Nintendo"
      [] self.tag = "Xbox" -> <<88, 66, 111, 120>>                           \* "XBox"
      [] self.tag = "PlayStation" -> <<80, 108, 97, 121, 83, 116, 97, 116, 105, 111, 110>>  \* "PlayStation"
      [] self.tag = "Fuchsia" -> <<70, 117, 99, 104, 115, 105, 97>>          \* "Fuchsia"
      [] self.tag = "Redox" -> <<82, 101, 100, 111, 120>>                    \* "Redox"
      [] self.tag = "Unknown" -> self.a

\* The slip of writing the prefix after the description instead of before it.
Platform_fmt_suffix(self, f) ==
    LET f1 == f \o Platform_label(self)
    IN  IF self.tag = "Unknown" THEN f1 \o UnknownPrefix ELSE f1

\* impl Display for Platform: what fmt appends to the formatter's buffer f.
Platform_fmt(self, f) ==
    LET f1 == IF self.tag = "Unknown" THEN f \o UnknownPrefix ELSE f
    IN  f1 \o Platform_label(self)

\* to_string(): Display into an empty buffer.
Platform_to_string(self) == Platform_fmt(self, << >>)
DesktopEnv_to_string(self) == DesktopEnv_fmt(self, << >>)

(***************************************************************************)
(* The native resolver: one per OS family, selected at build time.  Its    *)
(* answers are functions of the host's facts at the moment of the call.    *)
(***************************************************************************)
native_username(h) == h.username
native_username_os(h) == OsStringFrom(h.username)
native_realname(h) == h.realname
native_realname_os(h) == OsStringFrom(h.realname)
native_devicename_os(h) == h.devicename_os
native_devicename(h) == string_from_os(native_devicename_os(h))
native_hostname(h) == h.hostname
native_hostname_os(h) == OsStringFrom(h.hostname)
native_distro(h) == h.distro
native_distro_os(h) == IF h.distro.some THEN Some(OsStringFrom(h.distro.val)) ELSE None
native_desktop_env(h) == h.desktop_env
native_platform(h) == h.platform
native_lang(h) == h.lang

native(fact, h) ==
    CASE fact = "username" -> native_username(h)
      [] fact = "username_os" -> native_username_os(h)
      [] fact = "realname" -> native_realname(h)
      [] fact = "realname_os" -> native_realname_os(h)
      [] fact = "devicename" -> native_devicename(h)
      [] fact = "devicename_os" -> native_devicename_os(h)
      [] fact = "hostname" -> native_hostname(h)
      [] fact = "distro" -> native_distro(h)
      [] fact = "distro_os" -> native_distro_os(h)
      [] fact = "desktop_env" -> native_desktop_env(h)
      [] fact = "platform" -> native_platform(h)
      [] fact = "lang" -> native_lang(h)

(***************************************************************************)
(* The layer.                                                              *)
(***************************************************************************)
\* The layer keeps nothing between calls.
NothingRetained == [fact \in {} |-> << >>]

\* The memoising slip: the first answer for a fact is kept and served again.
FetchMemo(fact, h, r) ==
    IF fact \in DOMAIN r
    THEN [answer |-> r[fact], retained |-> r]
    ELSE [answer |-> native(fact, h),
          retained |-> [f \in DOMAIN r \cup {fact} |->
                            IF f = fact THEN native(fact, h) ELSE r[f]]]

\* A call `native::fact()` made by the layer on host h with retained state r:
\* the resolver's answer now, and the retained state afterwards (untouched).
Fetch(fact, h, r) == [answer |-> native(fact, h), retained |-> r]

username(h, r) == Fetch("username", h, r)
username_os(h, r) == Fetch("username_os", h, r)
realname(h, r) == Fetch("realname", h, r)
realname_os(h, r) == Fetch("realname_os", h, r)
devicename_os(h, r) == Fetch("devicename_os", h, r)
desktop_env(h, r) == Fetch("desktop_env", h, r)
platform(h, r) == Fetch("platform", h, r)

\* u8::to_ascii_lowercase
to_ascii_lowercase(b) == IF b \in 65..90 THEN b + 32 ELSE b

\* The slip of leaving the resolver's hostname as it came.
make_ascii_lowercase_skipped(s) == s

\* The slip of enforcing [a-z0-9-]: characters outside it are dropped.
make_ascii_lowercase_strict(s) ==
    SelectSeq([i \in 1..Len(s) |-> to_ascii_lowercase(s[i])],
              LAMBDA b : b \in 97..122 \/ b \in 48..57 \/ b = 45)

\* `hostname.make_ascii_lowercase()`: ASCII-only case folding, byte by byte.
make_ascii_lowercase(s) == [i \in 1..Len(s) |-> to_ascii_lowercase(s[i])]

\* The slip of lower-casing the device name as the hostname is.
devicename_folded(h, r) ==
    [answer |-> make_ascii_lowercase(Fetch("devicename", h, r).answer),
     retained |-> Fetch("devicename", h, r).retained]

devicename(h, r) == Fetch("devicename", h, r)

\* The slip of resolving the raw hostname independently of hostname().
hostname_os_native(text) == native_hostname_os(host)

\* `hostname().into()`: the raw form is the text form re-encoded.
hostname_os_into(text) == OsStringFrom(text)

\* "Unknown "
UnknownSpace == <<85, 110, 107, 110, 111, 119, 110, 32>>

\* The slip of reusing the Display prefix "Unknown: " in the fallback.
distro_fallback_colon(p) == Platform_fmt(p, UnknownPrefix)

\* `format!("Unknown {}", platform())`
distro_fallback(p) == Platform_fmt(p, UnknownSpace)

\* The slip of handing the tags back least preferred first.
lang_reversed(h, r) ==
    [answer |-> Reverse(Fetch("lang", h, r).answer), retained |-> Fetch("lang", h, r).retained]

\* lang(): the resolver's iterator, handed on as it is.
lang(h, r) == Fetch("lang", h, r)

PassQueries ==
    {"username", "username_os", "realname", "realname_os", "devicename",
     "devicename_os", "desktop_env", "platform"}

\* The body of each query that is a single call into the resolver.
PassCall(q, h, r) ==
    CASE q = "username" -> username(h, r)
      [] q = "username_os" -> username_os(h, r)
      [] q = "realname" -> realname(h, r)
      [] q = "realname_os" -> realname_os(h, r)
      [] q = "devicename" -> devicename(h, r)
      [] q = "devicename_os" -> devicename_os(h, r)
      [] q = "desktop_env" -> desktop_env(h, r)
      [] q = "platform" -> platform(h, r)

\* The slip of keeping a call's working value in one place shared by all threads.
SetLocalShared(l, t, v) == [u \in DOMAIN l |-> v]

\* A call's frame belongs to the calling thread alone.
SetLocal(l, t, v) == [l EXCEPT ![t] = v]

(***************************************************************************)
(* The hosts the model runs on.                                            *)
(***************************************************************************)
\* Hostname characters: "A", "Z", "a", "-", "9", "@", "[", and "É" (two bytes).
HostChars == {<<65>>, <<90>>, <<97>>, <<45>>, <<57>>, <<64>>, <<91>>, <<195, 137>>}

\* Raw bytes of a device name: "A", "b", " ", the two bytes of "É", and 0xFF.
RawBytes == {<<65>>, <<98>>, <<32>>, <<195>>, <<137>>, <<255>>}

\* Characters of an Unknown(text) description: "x", ":", " ".
TextChars == {<<120>>, <<58>>, <<32>>}

\* Language tags: "en-US", "en", "fr", and the malformed "EN_us!".
LangTags ==
    {<<101, 110, 45, 85, 83>>, <<101, 110>>, <<102, 114>>, <<69, 78, 95, 117, 115, 33>>}

Hostnames == StringsUpTo(HostChars, MaxHostLen)
RawNames == {OsStringFrom(s) : s \in StringsUpTo(RawBytes, MaxRawLen)}
UnknownTexts ==
    StringsUpTo(TextChars, MaxTextLen) \cup {UnknownPrefix, UnknownPrefix \o <<120>>}
Platforms == {Variant(n) : n \in PlatformNames} \cup {Unknown(x) : x \in UnknownTexts}
DesktopEnvs == {Variant(n) : n \in DesktopEnvNames} \cup {Unknown(x) : x \in UnknownTexts}
LangLists == StringsUpTo({<<tag>> : tag \in LangTags}, MaxLangs)

\* A Linux desktop: user "al" ("Al B"), device "Ab", host "Ab-", distro "D 1".
HostA ==
    [username |-> <<97, 108>>,
     realname |-> <<65, 108, 32, 66>>,
     devicename_os |-> OsStringFrom(<<65, 98>>),
     hostname |-> <<65, 98, 45>>,
     distro |-> Some(<<68, 32, 49>>),
     platform |-> Variant("Linux"),
     desktop_env |-> Variant("Gnome"),
     lang |-> <<<<101, 110, 45, 85, 83>>, <<101, 110>>, <<102, 114>>>>]

\* No distro reported; a device name that is not text; host "aÉZ".
HostB ==
    [username |-> <<98>>,
     realname |-> <<98>>,
     devicename_os |-> OsStringFrom(<<65, 255>>),
     hostname |-> <<97, 195, 137, 90>>,
     distro |-> None,
     platform |-> Variant("Bsd"),
     desktop_env |-> Unknown(<<120>>),
     lang |-> << >>]

\* An unclassified platform without a distro; host "z[" ; a malformed tag.
HostC ==
    [username |-> <<97, 108>>,
     realname |-> <<195, 137>>,
     devicename_os |-> OsStringFrom(<<195, 137, 32, 98>>),
     hostname |-> <<122, 91>>,
     distro |-> None,
     platform |-> Unknown(<<120>>),
     desktop_env |-> Variant("Console"),
     lang |-> <<<<69, 78, 95, 117, 115, 33>>, <<102, 114>>>>]

\* The hosts of the concurrent runs; the host may turn from any into any other.
Hosts == {HostA, HostB, HostC}

\* The hosts of the sequential runs: one fact of HostA ranges over all its values.
SeqHosts ==
    {[HostA EXCEPT !.hostname = s] : s \in Hostnames}
    \cup {[HostA EXCEPT !.devicename_os = v] : v \in RawNames}
    \cup {[HostA EXCEPT !.platform = p, !.distro = d] :
            p \in Platforms, d \in {None, Some(<<68, 32, 49>>)}}
    \cup {[HostA EXCEPT !.desktop_env = e] : e \in DesktopEnvs}
    \cup {[HostA EXCEPT !.lang = l] : l \in LangLists}
    \cup Hosts

(***************************************************************************)
(* The calls.                                                              *)
(***************************************************************************)
NoValue == << >>

\* A thread is free to make a call.
Free(t) == pc[t] \in {"idle", "done", "shown"}

\* username(), username_os(), realname(), realname_os(), devicename(),
\* devicename_os(), desktop_env(), platform(): one call into the resolver.
CallPassthrough(t) ==
    \E q \in PassQueries :
        /\ Free(t)
        /\ call' = [call EXCEPT ![t] = q]
        /\ seen' = [seen EXCEPT ![t] = <<host>>]
        /\ ret' = [ret EXCEPT ![t] = PassCall(q, host, retained).answer]
        /\ retained' = PassCall(q, host, retained).retained
        /\ local' = SetLocal(local, t, NoValue)
        /\ pc' = [pc EXCEPT ![t] = "done"]
        /\ UNCHANGED host

\* hostname(), also as called by hostname_os(): `let mut hostname = native::hostname();`
HostnameCall(t) ==
    \E q \in {"hostname", "hostname_os"} :
        /\ Free(t)
        /\ call' = [call EXCEPT ![t] = q]
        /\ seen' = [seen EXCEPT ![t] = <<host>>]
        /\ local' = SetLocal(local, t, Fetch("hostname", host, retained).answer)
        /\ retained' = Fetch("hostname", host, retained).retained
        /\ ret' = [ret EXCEPT ![t] = NoValue]
        /\ pc' = [pc EXCEPT ![t] = "hostname_lower"]
        /\ UNCHANGED host

\* `hostname.make_ascii_lowercase();`
HostnameLower(t) ==
    /\ pc[t] = "hostname_lower"
    /\ local' = SetLocal(local, t, make_ascii_lowercase(local[t]))
    /\ pc' = [pc EXCEPT ![t] = "hostname_return"]
    /\ UNCHANGED <<host, retained, call, ret, seen>>

\* `hostname`: the value goes to the caller, or to the frame of hostname_os().
HostnameReturn(t) ==
    /\ pc[t] = "hostname_return"
    /\ IF call[t] = "hostname"
       THEN /\ ret' = [ret EXCEPT ![t] = local[t]]
            /\ local' = SetLocal(local, t, NoValue)
            /\ pc' = [pc EXCEPT ![t] = "done"]
       ELSE /\ pc' = [pc EXCEPT ![t] = "hostname_os_into"]
            /\ UNCHANGED <<ret, local>>
    /\ UNCHANGED <<host, retained, call, seen>>

\* hostname_os(): `hostname().into()`
HostnameOsInto(t) ==
    /\ pc[t] = "hostname_os_into"
    /\ ret' = [ret EXCEPT ![t] = hostname_os_into(local[t])]
    /\ local' = SetLocal(local, t, NoValue)
    /\ pc' = [pc EXCEPT ![t] = "done"]
    /\ UNCHANGED <<host, retained, call, seen>>

\* distro(), distro_os(): `native::distro().unwrap_or_else(..)`; the closure runs
\* only when the resolver reports no value.
DistroCall(t) ==
    \E q \in {"distro", "distro_os"} :
        LET r == Fetch(q, host, retained)
        IN  /\ Free(t)
            /\ call' = [call EXCEPT ![t] = q]
            /\ seen' = [seen EXCEPT ![t] = <<host>>]
            /\ retained' = r.retained
            /\ local' = SetLocal(local, t, NoValue)
            /\ IF r.answer.some
               THEN /\ ret' = [ret EXCEPT ![t] = r.answer.val]
                    /\ pc' = [pc EXCEPT ![t] = "done"]
               ELSE /\ ret' = [ret EXCEPT ![t] = NoValue]
                    /\ pc' = [pc EXCEPT ![t] = "distro_platform"]
            /\ UNCHANGED host

\* The closure's `platform()`: a second call into the resolver.
DistroPlatform(t) ==
    /\ pc[t] = "distro_platform"
    /\ seen' = [seen EXCEPT ![t] = Append(seen[t], host)]
    /\ local' = SetLocal(local, t, platform(host, retained).answer)
    /\ retained' = platform(host, retained).retained
    /\ pc' = [pc EXCEPT ![t] = "distro_format"]
    /\ UNCHANGED <<host, call, ret>>

\* The closure's `format!("Unknown {}", ..)`, and `.into()` in distro_os().
DistroFormat(t) ==
    /\ pc[t] = "distro_format"
    /\ ret' = [ret EXCEPT ![t] =
                  IF call[t] = "distro"
                  THEN distro_fallback(local[t])
                  ELSE OsStringFrom(distro_fallback(local[t]))]
    /\ local' = SetLocal(local, t, NoValue)
    /\ pc' = [pc EXCEPT ![t] = "done"]
    /\ UNCHANGED <<host, retained, call, seen>>

\* lang(): the caller receives the iterator (local[t]) and has drawn nothing yet
\* (ret[t] collects what it draws).
LangCall(t) ==
    /\ Free(t)
    /\ call' = [call EXCEPT ![t] = "lang"]
    /\ seen' = [seen EXCEPT ![t] = <<host>>]
    /\ local' = SetLocal(local, t, lang(host, retained).answer)
    /\ retained' = lang(host, retained).retained
    /\ ret' = [ret EXCEPT ![t] = << >>]
    /\ pc' = [pc EXCEPT ![t] = "lang_iter"]
    /\ UNCHANGED host

\* The caller's `next()` on the iterator: the next tag, or the end.
LangNext(t) ==
    /\ pc[t] = "lang_iter"
    /\ IF local[t] = << >>
       THEN /\ pc' = [pc EXCEPT ![t] = "done"]
            /\ UNCHANGED <<ret, local>>
       ELSE /\ ret' = [ret EXCEPT ![t] = Append(ret[t], Head(local[t]))]
            /\ local' = SetLocal(local, t, Tail(local[t]))
            /\ UNCHANGED pc
    /\ UNCHANGED <<host, retained, call, seen>>

\* The caller renders the Platform or DesktopEnv it was given (`to_string()`):
\* local[t] keeps the value, ret[t] becomes its display text.
CallToString(t) ==
    /\ pc[t] = "done"
    /\ call[t] \in {"platform", "desktop_env"}
    /\ local' = SetLocal(local, t, ret[t])
    /\ ret' = [ret EXCEPT ![t] =
                  IF call[t] = "platform"
                  THEN Platform_to_string(ret[t])
                  ELSE DesktopEnv_to_string(ret[t])]
    /\ pc' = [pc EXCEPT ![t] = "shown"]
    /\ UNCHANGED <<host, retained, call, seen>>

\* The host's identity changes under the running process.
HostChange ==
    /\ host' \in Hosts \ {host}
    /\ UNCHANGED <<retained, pc, call, local, ret, seen>>

Step(t) ==
    \/ CallPassthrough(t)
    \/ HostnameCall(t)
    \/ HostnameLower(t)
    \/ HostnameReturn(t)
    \/ HostnameOsInto(t)
    \/ DistroCall(t)
    \/ DistroPlatform(t)
    \/ DistroFormat(t)
    \/ LangCall(t)
    \/ LangNext(t)
    \/ CallToString(t)

Quiet ==
    /\ retained = NothingRetained
    /\ pc = [t \in Threads |-> "idle"]
    /\ call = [t \in Threads |-> "none"]
    /\ local = [t \in Threads |-> NoValue]
    /\ ret = [t \in Threads |-> NoValue]
    /\ seen = [t \in Threads |-> << >>]

\* Several threads on a host whose identity may change.
Init == host \in Hosts /\ Quiet
Next == HostChange \/ \E t \in Threads : Step(t)
Spec == Init /\ [][Next]_vars

\* One caller on a host that stays as it is; the host ranges over SeqHosts.
InitSeq == host \in SeqHosts /\ Quiet
NextSeq == Step(Main)
SpecSeq == InitSeq /\ [][NextSeq]_vars

(***************************************************************************)
(* Properties.                                                             *)
(***************************************************************************)
Done(t, q) == pc[t] = "done" /\ call[t] = q

\* Thread t has rendered the value local[t] of the enum that query q returns.
Shown(t, q) == pc[t] = "shown" /\ call[t] = q

HasUpper(s) == \E i \in 1..Len(s) : s[i] \in 65..90

\* C1: the display text of Platform::Unknown(t) and of DesktopEnv::Unknown(t) is
\* exactly "Unknown: " followed by t, whatever t is, with nothing after it.
C1_UnknownDisplay ==
    \A t \in Threads :
        (pc[t] = "shown" /\ local[t].tag = "Unknown")
            => ret[t] = UnknownPrefix \o local[t].a

\* An Unknown platform whose description itself starts with "Unknown: " was rendered.
C1_Witness ==
    \E t \in Threads :
        /\ Shown(t, "platform")
        /\ local[t].tag = "Unknown"
        /\ StartsWith(local[t].a, UnknownPrefix)
        /\ Len(ret[t]) = Len(local[t].a) + Len(UnknownPrefix)

\* C2: within each enum a non-Unknown variant renders to a non-empty label that
\* does not start with "Unknown: " and that no other non-Unknown variant of the
\* same enum renders to.
C2_LabelsDistinct ==
    \A t \in Threads :
        /\ (Shown(t, "platform") /\ local[t].tag # "Unknown") =>
              /\ ret[t] # << >>
              /\ ~StartsWith(ret[t], UnknownPrefix)
              /\ \A n \in PlatformNames \ {local[t].tag} :
                    Platform_to_string(Variant(n)) # ret[t]
        /\ (Shown(t, "desktop_env") /\ local[t].tag # "Unknown") =>
              /\ ret[t] # << >>
              /\ ~StartsWith(ret[t], UnknownPrefix)
              /\ \A n \in DesktopEnvNames \ {local[t].tag} :
                    DesktopEnv_to_string(Variant(n)) # ret[t]

\* DesktopEnv::Ubuntu was rendered.
C2_Witness ==
    \E t \in Threads : Shown(t, "desktop_env") /\ local[t] = Variant("Ubuntu")

\* C3: whatever hostname the resolver returns, the result of hostname() holds no
\* ASCII uppercase letter, and lower-casing it again leaves it as it is.
C3_HostnameLower ==
    \A t \in Threads :
        Done(t, "hostname") =>
            /\ ~HasUpper(ret[t])
            /\ make_ascii_lowercase(ret[t]) = ret[t]

\* hostname() returned for a resolver hostname that holds an uppercase letter.
C3_Witness ==
    \E t \in Threads :
        /\ Done(t, "hostname")
        /\ HasUpper(native_hostname(seen[t][1]))
        /\ Len(ret[t]) = Len(native_hostname(seen[t][1]))

\* What hostname() returns on host h.
HostnameOn(h) == make_ascii_lowercase(native_hostname(h))

\* C4: hostname_os() asks the resolver once, for the text hostname, and its result
\* decodes to exactly the output of hostname() for that answer.
C4_HostnameOsAgrees ==
    \A t \in Threads :
        Done(t, "hostname_os") =>
            /\ Len(seen[t]) = 1
            /\ into_string(ret[t]) = Some(HostnameOn(seen[t][1]))

\* hostname_os() returned on a host whose hostname holds an uppercase letter and a
\* character outside ASCII.
C4_Witness ==
    \E t \in Threads :
        /\ Done(t, "hostname_os")
        /\ HasUpper(native_hostname(seen[t][1]))
        /\ \E i \in 1..Len(ret[t].inner) : ret[t].inner[i] >= 128

\* "Unknown Linux"
UnknownLinux == <<85, 110, 107, 110, 111, 119, 110, 32, 76, 105, 110, 117, 120>>

\* The text distro() and distro_os() fall back to, given the platform() they read.
FallbackText(p) == UnknownSpace \o Platform_to_string(p)

\* C5: when the resolver reports no distro, distro() is "Unknown " followed by the
\* display text of the platform() it reads ("Unknown Linux" for Linux), for every
\* Platform including Unknown(t), and distro_os() is that text re-encoded; the call
\* always goes on to return.  When the resolver reports a distro, it is returned
\* unchanged and platform() is not asked.
C5_DistroFallback ==
    \A t \in Threads :
        /\ Done(t, "distro") =>
              IF native_distro(seen[t][1]).some
              THEN /\ ret[t] = native_distro(seen[t][1]).val
                   /\ Len(seen[t]) = 1
              ELSE /\ Len(seen[t]) = 2
                   /\ ret[t] = FallbackText(native_platform(seen[t][2]))
                   /\ native_platform(seen[t][2]) = Variant("Linux") => ret[t] = UnknownLinux
        /\ Done(t, "distro_os") =>
              IF native_distro_os(seen[t][1]).some
              THEN /\ ret[t] = native_distro_os(seen[t][1]).val
                   /\ Len(seen[t]) = 1
              ELSE /\ Len(seen[t]) = 2
                   /\ ret[t] = OsStringFrom(FallbackText(native_platform(seen[t][2])))
        /\ pc[t] = "distro_platform" => ENABLED DistroPlatform(t)
        /\ pc[t] = "distro_format" => ENABLED DistroFormat(t)

\* distro() returned the fallback on a host whose platform is Unknown(t), t not empty.
C5_Witness ==
    \E t \in Threads :
        /\ Done(t, "distro")
        /\ ~native_distro(seen[t][1]).some
        /\ native_platform(seen[t][2]).tag = "Unknown"
        /\ native_platform(seen[t][2]).a # << >>
        /\ StartsWith(ret[t], UnknownSpace \o UnknownPrefix)

\* Every tag drawn so far, in order, is a prefix of the resolver's sequence, and
\* a finished iteration has drawn all of it.
LangExact ==
    \A t \in Threads :
        /\ pc[t] = "lang_iter" => ret[t] \o local[t] = native_lang(seen[t][1])
        /\ Done(t, "lang") => ret[t] = native_lang(seen[t][1]) /\ local[t] = << >>

\* A caller that has iterated lang() to its end and calls lang() again, the
\* resolver's sequence being the same, is handed the sequence it has just drawn.
LangRestart ==
    \A t \in Threads :
        (/\ Done(t, "lang")
         /\ pc'[t] = "lang_iter"
         /\ native_lang(host) = native_lang(seen[t][1]))
            => local'[t] = ret[t] /\ ret'[t] = << >>

\* C6: lang() yields exactly the resolver's tags, in the resolver's order, none
\* added, dropped, reordered or rewritten, and iterating lang() again yields the
\* same sequence.
C6_LangOrder == []LangExact /\ [][LangRestart]_vars

\* lang() was iterated to its end over two different tags, the first malformed.
C6_Witness ==
    \E t \in Threads :
        /\ Done(t, "lang")
        /\ Len(ret[t]) >= 2
        /\ ret[t][1] = <<69, 78, 95, 117, 115, 33>>
        /\ ret[t][2] # ret[t][1]

\* What query q returns when run alone against the resolver answers s (the host
\* at each of its reads).
Alone(q, s) ==
    CASE q \in PassQueries -> native(q, s[1])
      [] q = "hostname" -> HostnameOn(s[1])
      [] q = "hostname_os" -> OsStringFrom(HostnameOn(s[1]))
      [] q = "distro" ->
            IF native_distro(s[1]).some THEN native_distro(s[1]).val
            ELSE FallbackText(native_platform(s[2]))
      [] q = "distro_os" ->
            IF native_distro_os(s[1]).some THEN native_distro_os(s[1]).val
            ELSE OsStringFrom(FallbackText(native_platform(s[2])))
      [] q = "lang" -> native_lang(s[1])

\* C7: under any interleaving, every call holds at each of its steps, and returns,
\* what it would running alone against the resolver answers it got; a concurrent
\* hostname() result is fully lower-cased.
C7_NoInterference ==
    \A t \in Threads :
        /\ pc[t] = "hostname_lower" => local[t] = native_hostname(seen[t][1])
        /\ pc[t] \in {"hostname_return", "hostname_os_into"} =>
              local[t] = HostnameOn(seen[t][1])
        /\ pc[t] = "distro_format" => local[t] = native_platform(seen[t][2])
        /\ pc[t] = "lang_iter" => ret[t] \o local[t] = native_lang(seen[t][1])
        /\ pc[t] = "done" => ret[t] = Alone(call[t], seen[t])
        /\ Done(t, "hostname") => ~HasUpper(ret[t])

\* Two hostname() calls are in flight at once, on different resolver answers.
C7_Witness ==
    /\ pc["t1"] = "hostname_return"
    /\ pc["t2"] = "hostname_lower"
    /\ call["t1"] = "hostname"
    /\ call["t2"] = "hostname"
    /\ native_hostname(seen["t1"][1]) # native_hostname(seen["t2"][1])
    /\ HasUpper(local["t2"])

C9_HostnameOnlyLowercases ==
    \A t \in Threads :
        Done(t, "hostname") =>
            LET raw == native_hostname(seen[t][1])
            IN  /\ Len(ret[t]) = Len(raw)
                /\ \A i \in 1..Len(raw) :
                      ret[t][i] = IF raw[i] \in 65..90 THEN raw[i] + 32 ELSE raw[i]

\* hostname() returned for a hostname made of an uppercase letter and a character
\* outside ASCII.
C9_Witness ==
    \E t \in Threads :
        /\ Done(t, "hostname")
        /\ LET raw == native_hostname(seen[t][1])
           IN  /\ HasUpper(raw)
               /\ \E j \in 1..Len(raw) : raw[j] >= 128
               /\ ret[t] # raw

\* Thread t starts a call in this step.
Starts(t) ==
    /\ Free(t)
    /\ pc'[t] # "shown"
    /\ <<pc[t], call[t], local[t], ret[t], seen[t]>>
           # <<pc'[t], call'[t], local'[t], ret'[t], seen'[t]>>

\* Every read of the resolver a call makes gets the host's value as it is at
\* that step.
FreshReads ==
    \A t \in Threads :
        /\ (Starts(t) /\ call'[t] \in PassQueries) => ret'[t] = native(call'[t], host)
        /\ (Starts(t) /\ call'[t] \in {"hostname", "hostname_os"}) =>
              local'[t] = native_hostname(host)
        /\ (Starts(t) /\ call'[t] \in {"distro", "distro_os"}) =>
              IF native(call'[t], host).some
              THEN ret'[t] = native(call'[t], host).val
              ELSE pc'[t] = "distro_platform"
        /\ (Starts(t) /\ call'[t] = "lang") => local'[t] = native_lang(host)
        /\ (pc[t] = "distro_platform" /\ pc'[t] = "distro_format") =>
              local'[t] = native_platform(host)

\* C10: nothing is cached: the layer retains nothing, and every call gets the
\* value the resolver reports at the time of that call, however the host's facts
\* have changed since earlier calls.
C10_NoCache == [](retained = NothingRetained) /\ [][FreshReads]_vars

\* Two hostname() calls returned different values: the later one, made after the
\* host changed, reflects the host as it is now.
C10_Witness ==
    \E t, u \in Threads :
        /\ Done(t, "hostname")
        /\ Done(u, "hostname")
        /\ ret[t] # ret[u]
        /\ seen[u] = <<host>>
        /\ ret[u] = HostnameOn(host)

====
